---------------------------- MODULE Spec2Model ----------------------------
(***************************************************************************)
(* DocuStruct (src/app.py): a Streamlit script that is re-executed from    *)
(* top to bottom on every user event.  The session state (page,            *)
(* file_path, result, doc_type, field_rows) survives between executions.   *)
(* One action of this model is one user event together with every script   *)
(* execution it causes (st.rerun() included), up to the point where the    *)
(* script runs to its end or dies with an uncaught exception.              *)
(*                                                                         *)
(* Text is a sequence of atoms: the atom " " is one whitespace character,  *)
(* any other atom is a chunk of text that neither starts nor ends with     *)
(* whitespace.  JSON-like Python values are tagged records.                *)
(*                                                                         *)
(* The API key is taken to be present (src/app.py:79), so the script never *)
(* stops at st.stop().  A text_input without a user edit in the current    *)
(* execution returns its value= argument (the row's stored text).          *)
(***************************************************************************)
EXTENDS Integers, Sequences, FiniteSets, TLC

VARIABLES page, file_path, result, doc_type, field_rows,
          rows_obj, BUILTIN_FIELDS, uploaded, error, calls,
          schema_in, schema_out

vars == <<page, file_path, result, doc_type, field_rows,
          rows_obj, BUILTIN_FIELDS, uploaded, error, calls,
          schema_in, schema_out>>

session == <<page, file_path, result, doc_type, field_rows,
             rows_obj, BUILTIN_FIELDS, uploaded, error, calls>>

probe == <<schema_in, schema_out>>

----------------------------------------------------------------------------
(* Bounds of the model *)

\* the longest field list "Add Field" is allowed to build
MaxRows == 6

\* how many rows may hold user-typed text at the same time
MaxCustom == 1

\* nesting depth of the schemas given to clean_schema on its own
MaxDepth == 3

----------------------------------------------------------------------------
(* Python values *)

None == [t |-> "null"]

JStr(x) == [t |-> "str", v |-> x]

JNum(n) == [t |-> "num", v |-> n]

JDict(f) == [t |-> "dict", v |-> f]

JList(s) == [t |-> "list", v |-> s]

JBool(b) == [t |-> "bool", v |-> b]

EmptyDict == JDict(<<>>)

IsDict(x) == x.t = "dict"

IsList(x) == x.t = "list"

\* Python truthiness: None, "", 0, {} and [] are falsy
Truthy(x) ==
    CASE x.t = "null" -> FALSE
      [] x.t = "str"  -> x.v # ""
      [] x.t = "num"  -> x.v # 0
      [] x.t = "bool" -> x.v
      [] x.t = "dict" -> DOMAIN x.v # {}
      [] x.t = "list" -> Len(x.v) > 0
      [] OTHER        -> TRUE

----------------------------------------------------------------------------
(* Text *)

IsSpace(a) == a = " "

RECURSIVE lstrip(_)
lstrip(s) == IF s # <<>> /\ IsSpace(Head(s)) THEN lstrip(Tail(s)) ELSE s

RECURSIVE rstrip(_)
rstrip(s) ==
    IF s # <<>> /\ IsSpace(s[Len(s)]) THEN rstrip(SubSeq(s, 1, Len(s) - 1)) ELSE s

\* a faulty variant of strip: the text is stored as typed
strip_none(s) == s

\* str.strip()
strip(s) == rstrip(lstrip(s))

\* the Python str an atom sequence stands for
RECURSIVE Join(_)
Join(s) == IF s = <<>> THEN "" ELSE Head(s) \o Join(Tail(s))

----------------------------------------------------------------------------
(* The built-in catalog and the seeding of the field list *)

T(x) == <<x>>

\* the literal of BUILTIN_FIELDS: per preset its (name, description) items in
\* the order the dict literal lists them
Catalog ==
    [p \in {"Form", "Receipt"} |->
        IF p = "Form"
        THEN << <<T("first_name"),    T("User's given name")>>,
                <<T("last_name"),     T("User's family name")>>,
                <<T("date_of_birth"), T("Date of birth in DD/MM/YYYY")>>,
                <<T("address"),       T("Full mailing address")>>,
                <<T("phone_number"),  T("Primary contact phone number")>>,
                <<T("gender"),        T("User's gender (e.g. Male, Female, Other)")>> >>
        ELSE << <<T("merchant_name"),    T("Name of store or vendor")>>,
                <<T("transaction_date"), T("Date of purchase (DD/MM/YYYY)")>>,
                <<T("total_amount"),     T("Grand total charged")>>,
                <<T("tax_amount"),       T("Total tax applied")>>,
                <<T("payment_method"),   T("Method of payment (e.g. Visa, Cash)")>>,
                <<T("items"),            T("Line-items purchased with price and qty")>> >>]

\* list(BUILTIN_FIELDS.keys())
Presets == <<"Form", "Receipt">>

PresetNames == {Presets[i] : i \in 1..Len(Presets)}

\* the doc_type the session starts with
DefaultDocType == "Form"

Row(n, d) == [name |-> n, desc |-> d]

\* the rows the list comprehension builds from the items of one preset
RowsOf(items) == [i \in 1..Len(items) |-> Row(items[i][1], items[i][2])]

ItemsOf(rows) == [i \in 1..Len(rows) |-> <<rows[i].name, rows[i].desc>>]

\* a faulty variant of on_doc_type_change: the list handed to the session is the
\* catalog's own storage for the preset instead of a new list
on_doc_type_change_alias(catalog, dt) ==
    [obj |-> dt, rows |-> RowsOf(catalog[dt])]

\* a faulty variant of on_doc_type_change: always seeds from the first preset
on_doc_type_change_first(catalog, dt) ==
    [obj |-> "session", rows |-> RowsOf(catalog[Presets[1]])]

\* on_doc_type_change: field_rows becomes a new list (object "session") of
\* new row dicts built from the catalog entry of the selected preset
on_doc_type_change(catalog, dt) ==
    [obj |-> "session", rows |-> RowsOf(catalog[dt])]

\* what a mutation of the list object `obj` does to the catalog storage: a
\* list owned by the session leaves it alone
StoreOf(catalog, obj, rows) ==
    IF obj = "session" THEN catalog ELSE [catalog EXCEPT ![obj] = ItemsOf(rows)]

----------------------------------------------------------------------------
(* Files *)

\* what the file_uploader accepts (type=["pdf","png"]): name root and extension
Uploads == { [t |-> "file", root |-> "scan", ext |-> ".pdf"] }

\* save_file: a temporary copy of the upload's bytes whose name ends with the
\* upload's extension (the random part of the temporary name is left out)
save_file(u) == [t |-> "path", suffix |-> u.ext, bytes |-> u.root]

----------------------------------------------------------------------------
(* clean_schema *)

ExtraKey == "additionalProperties"

\* a faulty variant of clean_schema: only the root mapping is cleaned
clean_schema_root(s) ==
    IF IsDict(s) THEN JDict([k \in DOMAIN s.v \ {ExtraKey} |-> s.v[k]]) ELSE s

RECURSIVE clean_schema_nolist(_)
\* a faulty variant of clean_schema: sequences are returned as they are
clean_schema_nolist(s) ==
    IF IsDict(s)
    THEN JDict([k \in DOMAIN s.v \ {ExtraKey} |-> clean_schema_nolist(s.v[k])])
    ELSE s

RECURSIVE clean_schema(_)
\* clean_schema: pop "additionalProperties" from every mapping, recursing
\* through mappings and sequences
clean_schema(s) ==
    IF IsDict(s)
    THEN JDict([k \in DOMAIN s.v \ {ExtraKey} |-> clean_schema(s.v[k])])
    ELSE IF IsList(s)
    THEN JList([i \in 1..Len(s.v) |-> clean_schema(s.v[i])])
    ELSE s

----------------------------------------------------------------------------
(* json.dumps(data, indent=2) and json.loads, over tokens *)

\* the order in which the keys of a result mapping are written
ResultKeys == <<"a", "b">>

StrValues == {"a", "b", "x"}

NumValues == {0, 1}

Quote(x) == "\"" \o x \o "\""

StrToks == {Quote(x) : x \in StrValues}

NumToks == {ToString(n) : n \in NumValues}

Unquote(tok) == CHOOSE x \in StrValues : Quote(x) = tok

NumOf(tok) == CHOOSE n \in NumValues : ToString(n) = tok

\* the newline and indentation json.dumps writes with indent=2
WS == "ws"

KeysOf(f) == SelectSeq(ResultKeys, LAMBDA k : k \in DOMAIN f)

RECURSIVE json_dumps(_)
RECURSIVE DumpMembers(_, _, _)
RECURSIVE DumpElems(_, _)

DumpMembers(f, keys, i) ==
    IF i > Len(keys) THEN <<>>
    ELSE (IF i > 1 THEN <<",">> ELSE <<>>)
         \o <<WS, Quote(keys[i]), ":">> \o json_dumps(f[keys[i]])
         \o DumpMembers(f, keys, i + 1)

DumpElems(s, i) ==
    IF i > Len(s) THEN <<>>
    ELSE (IF i > 1 THEN <<",">> ELSE <<>>)
         \o <<WS>> \o json_dumps(s[i]) \o DumpElems(s, i + 1)

\* json.dumps(x, indent=2): an empty mapping is "{}", an empty sequence "[]"
json_dumps(x) ==
    CASE x.t = "null" -> <<"null">>
      [] x.t = "str"  -> <<Quote(x.v)>>
      [] x.t = "num"  -> <<ToString(x.v)>>
      [] x.t = "dict" -> IF DOMAIN x.v = {} THEN <<"{", "}">>
                         ELSE <<"{">> \o DumpMembers(x.v, KeysOf(x.v), 1) \o <<WS, "}">>
      [] x.t = "list" -> IF Len(x.v) = 0 THEN <<"[", "]">>
                         ELSE <<"[">> \o DumpElems(x.v, 1) \o <<WS, "]">>

Parsed(v, n) == [ok |-> TRUE, val |-> v, next |-> n]

ParseError == [ok |-> FALSE, val |-> None, next |-> 0]

At(toks, i) == IF i \in 1..Len(toks) THEN toks[i] ELSE "<eof>"

RECURSIVE ParseValue(_, _)
RECURSIVE ParseMembers(_, _, _)
RECURSIVE ParseElems(_, _, _)

\* the members of an object after "{": "key" : value, separated by ","
ParseMembers(toks, i, acc) ==
    IF At(toks, i) \notin StrToks \/ At(toks, i + 1) # ":" THEN ParseError
    ELSE LET r == ParseValue(toks, i + 2) IN
         IF ~r.ok THEN ParseError
         ELSE LET acc2 == (Unquote(toks[i]) :> r.val) @@ acc IN
              CASE At(toks, r.next) = "," -> ParseMembers(toks, r.next + 1, acc2)
                [] At(toks, r.next) = "}" -> Parsed(JDict(acc2), r.next + 1)
                [] OTHER -> ParseError

\* the elements of an array after "[", separated by ","
ParseElems(toks, i, acc) ==
    LET r == ParseValue(toks, i) IN
    IF ~r.ok THEN ParseError
    ELSE CASE At(toks, r.next) = "," -> ParseElems(toks, r.next + 1, Append(acc, r.val))
           [] At(toks, r.next) = "]" -> Parsed(JList(Append(acc, r.val)), r.next + 1)
           [] OTHER -> ParseError

ParseValue(toks, i) ==
    LET c == At(toks, i) IN
    CASE c = "null"    -> Parsed(None, i + 1)
      [] c \in StrToks -> Parsed(JStr(Unquote(c)), i + 1)
      [] c \in NumToks -> Parsed(JNum(NumOf(c)), i + 1)
      [] c = "{"       -> IF At(toks, i + 1) = "}" THEN Parsed(EmptyDict, i + 2)
                          ELSE ParseMembers(toks, i + 1, <<>>)
      [] c = "["       -> IF At(toks, i + 1) = "]" THEN Parsed(JList(<<>>), i + 2)
                          ELSE ParseElems(toks, i + 1, <<>>)
      [] OTHER         -> ParseError

\* json.loads: whitespace is skipped, one value must span the whole text;
\* ok = FALSE stands for json.JSONDecodeError
json_loads(text) ==
    LET toks == SelectSeq(text, LAMBDA c : c # WS)
        r    == ParseValue(toks, 1)
    IN  IF r.ok /\ r.next = Len(toks) + 1 THEN r ELSE ParseError

----------------------------------------------------------------------------
(* The schema of the dynamic model *)

\* Python truthiness of r['name']
HasName(r) == r.name # <<>>

NamedRows(rows) == SelectSeq(rows, HasName)

\* the keys of the dict comprehension in insertion order: a name that comes
\* again keeps the place of its first row
RECURSIVE DefOrder(_, _)
DefOrder(names, seen) ==
    IF names = <<>> THEN <<>>
    ELSE IF Head(names) \in seen THEN DefOrder(Tail(names), seen)
    ELSE <<Head(names)>> \o DefOrder(Tail(names), seen \cup {Head(names)})

\* the index of the last row that carries the name n
LastIndex(names, n) ==
    CHOOSE i \in 1..Len(names) :
        names[i] = n /\ \A j \in (i + 1)..Len(names) : names[j] # n

\* defs = {r['name']: (str, Field(description=r['desc'])) for r in rows if
\* r['name']}: one entry per name, a later row with the same name replaces
\* the description of an earlier one
defs(rows) ==
    LET named == NamedRows(rows)
        names == [i \in 1..Len(named) |-> Join(named[i].name)]
    IN  [order |-> DefOrder(names, {}),
         desc  |-> [n \in {names[i] : i \in 1..Len(names)} |->
                       Join(named[LastIndex(names, n)].desc)]]

\* create_model('DynamicSchema', **defs).model_json_schema(): every field is
\* a required string property carrying its description (the per-property
\* "title" that is derived from the name is left out)
model_json_schema(rows) ==
    LET d == defs(rows) IN
    JDict(("properties" :>
              JDict([n \in DOMAIN d.desc |->
                  JDict(("description" :> JStr(d.desc[n])) @@ ("type" :> JStr("string")))]))
          @@ ("required" :> JList([i \in 1..Len(d.order) |-> JStr(d.order[i])]))
          @@ ("title" :> JStr("DynamicSchema"))
          @@ ("type" :> JStr("object")))

----------------------------------------------------------------------------
(* The remote service and extract_structured *)

Rec1 == JDict("a" :> JStr("x"))

Rec2 == JDict(("a" :> JStr("x")) @@ ("b" :> JDict("a" :> JNum(1))))

\* the values the remote service may answer with, as JSON
PayloadValues ==
    { None, EmptyDict, Rec2, JList(<<>>), JList(<<Rec1, Rec2>>) }

\* a response body that is not JSON: a truncated object
Malformed == { <<"{", Quote("a")>> }

\* what the remote service does with one extraction
Outcomes ==
    { [kind |-> "upload_fails"], [kind |-> "generate_fails"] }
    \cup { [kind |-> "text", text |-> json_dumps(v)] : v \in PayloadValues }
    \cup { [kind |-> "text", text |-> m] : m \in Malformed }

Prompt(dtype) ==
    IF dtype = "Form" THEN "Extract all form fields as JSON."
    ELSE "Extract receipt details as JSON."

UploadCall(path) == [op |-> "files.upload", file |-> path]

GenerateCall(prompt, path, schema) ==
    [op |-> "models.generate_content", prompt |-> prompt, file |-> path,
     mime |-> "application/json", schema |-> schema]

Raised(cs) == [raised |-> TRUE, value |-> None, calls |-> cs]

Returned(v, cs) == [raised |-> FALSE, value |-> v, calls |-> cs]

\* extract_structured(path, model, dtype) when the remote service does o:
\* the calls made to the client, and the value returned or an exception
extract_structured(path, rows, dtype, o) ==
    LET schema == clean_schema(model_json_schema(rows))
        up     == <<UploadCall(path)>>
        gen    == Append(up, GenerateCall(Prompt(dtype), path, schema))
    IN  IF o.kind = "upload_fails" THEN Raised(up)
        ELSE IF o.kind = "generate_fails" THEN Raised(gen)
        ELSE LET r == json_loads(o.text) IN
             IF r.ok THEN Returned(r.val, gen) ELSE Raised(gen)

----------------------------------------------------------------------------
(* The script: session defaults, the upload page, the results page *)

Msg(m) == [t |-> "error", msg |-> m]

\* an uncaught exception: Streamlit shows it to the user and ends the run
Exception == [t |-> "exception"]

SessionKeys == {"page", "file_path", "result", "doc_type", "field_rows"}

\* a faulty variant of PoppedKeys: the preset selection is kept
PoppedKeys_keep_doc_type == {"page", "file_path", "result", "field_rows"}

\* a faulty variant of PoppedKeys: the document reference is kept
PoppedKeys_keep_file == {"page", "result", "field_rows", "doc_type"}

\* the keys "Process Another File" pops from the session state
PoppedKeys == {"page", "file_path", "result", "field_rows", "doc_type"}

\* the session defaults: every key that is missing gets its initial value;
\* a missing field_rows is seeded from the doc_type then in force
Defaults(st, present, catalog) ==
    LET dt == IF "doc_type" \in present THEN st.doc_type ELSE DefaultDocType IN
    [ page       |-> IF "page" \in present THEN st.page ELSE "upload",
      file_path  |-> IF "file_path" \in present THEN st.file_path ELSE None,
      result     |-> IF "result" \in present THEN st.result ELSE None,
      doc_type   |-> dt,
      field_rows |-> IF "field_rows" \in present THEN st.field_rows
                     ELSE on_doc_type_change(catalog, dt) ]

NoEdit == [i |-> 0, w |-> "none", text |-> <<>>]

\* what a text_input returns: the text typed in this run, or its value=
Typed(edit, i, w, stored) == IF edit.i = i /\ edit.w = w THEN edit.text ELSE stored

\* the field row loop run to its end: every row is overwritten with the
\* stripped texts of its two inputs
RenderRows(rows, edit) ==
    [i \in 1..Len(rows) |->
        Row(strip(Typed(edit, i, "name", rows[i].name)),
            strip(Typed(edit, i, "desc", rows[i].desc)))]

\* the uploader: a file in the widget is saved again on every run
RenderFile(up, fp) == IF up # None THEN save_file(up) ELSE fp

\* list.pop(i), 1-based
Pop(rows, i) == SubSeq(rows, 1, i - 1) \o SubSeq(rows, i + 1, Len(rows))

Stay(res, err, cs) == [page |-> "upload", result |-> res, error |-> err, calls |-> cs]

Show(r) == [page |-> "results", result |-> r.value, error |-> None, calls |-> r.calls]

\* a faulty variant of ExtractData: the uploaded-file check is missing
ExtractData_no_file_check(fp, res, rows, dt, o) ==
    IF ~ \E i \in 1..Len(rows) : HasName(rows[i])
    THEN Stay(res, Msg("Add at least one field."), <<>>)
    ELSE LET r == extract_structured(fp, rows, dt, o) IN
         IF r.raised THEN Stay(res, Exception, r.calls) ELSE Show(r)

\* a faulty variant of ExtractData: a failure of the client is caught and the results
\* page is shown all the same
ExtractData_swallow(fp, res, rows, dt, o) ==
    IF fp = None THEN Stay(res, Msg("Upload a file first."), <<>>)
    ELSE IF ~ \E i \in 1..Len(rows) : HasName(rows[i])
    THEN Stay(res, Msg("Add at least one field."), <<>>)
    ELSE LET r == extract_structured(fp, rows, dt, o) IN
         IF r.raised
         THEN [page |-> "results", result |-> EmptyDict, error |-> Exception,
               calls |-> r.calls]
         ELSE Show(r)

\* the "Extract Data" handler when the remote service does o: the two checks,
\* then the extraction; its result is stored and the page switched only when
\* extract_structured returns
ExtractData(fp, res, rows, dt, o) ==
    IF fp = None THEN Stay(res, Msg("Upload a file first."), <<>>)
    ELSE IF ~ \E i \in 1..Len(rows) : HasName(rows[i])
    THEN Stay(res, Msg("Add at least one field."), <<>>)
    ELSE LET r == extract_structured(fp, rows, dt, o) IN
         IF r.raised THEN Stay(res, Exception, r.calls) ELSE Show(r)

\* the outcomes to go through: when the handler makes no call to the client,
\* what the service would have done makes no difference and one outcome
\* stands for all
RemoteOutcomes(fp, res, rows, dt) ==
    LET any == [kind |-> "upload_fails"] IN
    IF ExtractData(fp, res, rows, dt, any).calls = <<>> THEN {any} ELSE Outcomes

\* data = st.session_state.result or {}
Data(res) == IF Truthy(res) THEN res ELSE EmptyDict

\* the text behind the JSON download button
JsonExport(res) == json_dumps(Data(res))

----------------------------------------------------------------------------
(* User input *)

\* what the user types into a name input, and into a description input
TypedText ==
    [w \in {"name", "desc"} |->
        IF w = "name" THEN { <<" ", " ">>, <<" ", ExtraKey, " ">> }
        ELSE { <<"d", " ">> }]

DefaultRows ==
    UNION { {RowsOf(Catalog[p])[i] : i \in 1..Len(Catalog[p])} : p \in PresetNames }

\* a row holding text that is neither a catalog default nor the empty row
IsCustom(r) == r \notin DefaultRows \cup {Row(<<>>, <<>>)}

\* the row the user types into: the last
EditIndexes(rows) == {Len(rows)} \cap (1..Len(rows))

\* the row whose remove button the user presses: the last
RemoveIndexes(rows) == {Len(rows)} \cap (1..Len(rows))

CustomCount(rows) == Cardinality({i \in 1..Len(rows) : IsCustom(rows[i])})

----------------------------------------------------------------------------
(* Initial state: the session after the first execution of the script *)

Leaves == {JStr("string"), JBool(FALSE)}

InitSession ==
    LET d == Defaults([x \in {} |-> None], {}, Catalog) IN
    /\ BUILTIN_FIELDS = Catalog
    /\ page = d.page
    /\ file_path = d.file_path
    /\ result = d.result
    /\ doc_type = d.doc_type
    /\ field_rows = RenderRows(d.field_rows.rows, NoEdit)
    /\ rows_obj = d.field_rows.obj
    /\ uploaded = None
    /\ error = None
    /\ calls = <<>>

Init ==
    /\ InitSession
    /\ schema_in = JStr("string")
    /\ schema_out = clean_schema(schema_in)

----------------------------------------------------------------------------
(* Actions: one user event and the script executions it causes *)

\* field_rows is bound to the list object obj holding rows
SetRows(obj, rows) ==
    /\ field_rows' = rows
    /\ rows_obj' = obj
    /\ BUILTIN_FIELDS' = StoreOf(BUILTIN_FIELDS, obj, rows)

\* a run that reaches neither st.error nor the extraction client
Quiet == error' = None /\ calls' = <<>>

\* the selectbox changes doc_type; on_change runs on_doc_type_change, then
\* the script renders the upload page
SelectPreset(p) ==
    /\ page = "upload"
    /\ p # doc_type
    /\ doc_type' = p
    /\ UNCHANGED <<page, result, uploaded, probe>>
    /\ Quiet
    /\ file_path' = RenderFile(uploaded, file_path)
    /\ LET seeded == on_doc_type_change(BUILTIN_FIELDS, p) IN
       SetRows(seeded.obj, RenderRows(seeded.rows, NoEdit))

\* a file is put into the uploader
UploadFile(u) ==
    /\ page = "upload"
    /\ uploaded # u
    /\ uploaded' = u
    /\ file_path' = RenderFile(u, file_path)
    /\ SetRows(rows_obj, RenderRows(field_rows, NoEdit))
    /\ Quiet
    /\ UNCHANGED <<page, result, doc_type, probe>>

\* the file is taken out of the uploader: file_path keeps the last copy
ClearUpload ==
    /\ page = "upload"
    /\ uploaded # None
    /\ uploaded' = None
    /\ file_path' = RenderFile(None, file_path)
    /\ SetRows(rows_obj, RenderRows(field_rows, NoEdit))
    /\ Quiet
    /\ UNCHANGED <<page, result, doc_type, probe>>

\* "Reset to Default Fields": on_doc_type_change, st.rerun(), upload page
ResetFields ==
    /\ page = "upload"
    /\ UNCHANGED <<page, result, doc_type, uploaded, probe>>
    /\ Quiet
    /\ file_path' = RenderFile(uploaded, file_path)
    /\ LET seeded == on_doc_type_change(BUILTIN_FIELDS, doc_type) IN
       SetRows(seeded.obj, RenderRows(seeded.rows, NoEdit))

\* the user types text into the name or description input of row i
EditField(i, w, text) ==
    /\ page = "upload"
    /\ i \in EditIndexes(field_rows)
    /\ LET rows == RenderRows(field_rows, [i |-> i, w |-> w, text |-> text]) IN
       /\ CustomCount(rows) <= MaxCustom
       /\ SetRows(rows_obj, rows)
    /\ file_path' = RenderFile(uploaded, file_path)
    /\ Quiet
    /\ UNCHANGED <<page, result, doc_type, uploaded, probe>>

\* the remove button of row i: pop(i), st.rerun(), upload page
RemoveField(i) ==
    /\ page = "upload"
    /\ i \in RemoveIndexes(field_rows)
    /\ SetRows(rows_obj, RenderRows(Pop(field_rows, i), NoEdit))
    /\ file_path' = RenderFile(uploaded, file_path)
    /\ Quiet
    /\ UNCHANGED <<page, result, doc_type, uploaded, probe>>

\* "Add Field": append an empty row, st.rerun(), upload page
AddField ==
    /\ page = "upload"
    /\ Len(field_rows) < MaxRows
    /\ SetRows(rows_obj, RenderRows(Append(field_rows, Row(<<>>, <<>>)), NoEdit))
    /\ file_path' = RenderFile(uploaded, file_path)
    /\ Quiet
    /\ UNCHANGED <<page, result, doc_type, uploaded, probe>>

\* "Extract Data" while the remote service does o: the upload page is
\* rendered, then the handler runs; on success st.rerun() shows the results
\* page, where the uploader is no longer rendered
Submit(o) ==
    /\ page = "upload"
    /\ UNCHANGED <<doc_type, probe>>
    /\ LET fp   == RenderFile(uploaded, file_path)
           rows == RenderRows(field_rows, NoEdit)
           h    == ExtractData(fp, result, rows, doc_type, o)
       IN  /\ page' = h.page
           /\ error' = h.error
           /\ result' = h.result
           /\ calls' = h.calls
           /\ file_path' = fp
           /\ uploaded' = IF h.page = "results" THEN None ELSE uploaded
           /\ SetRows(rows_obj, rows)

ExtractDataPressed ==
    \E o \in RemoteOutcomes(RenderFile(uploaded, file_path), result,
                             RenderRows(field_rows, NoEdit), doc_type) : Submit(o)

\* "Process Another File": the keys are popped, st.rerun(), the defaults are
\* set again and the upload page is rendered with an empty uploader
ProcessAnother ==
    /\ page = "results"
    /\ LET st == [page |-> page, file_path |-> file_path, result |-> result,
                  doc_type |-> doc_type,
                  field_rows |-> [obj |-> rows_obj, rows |-> field_rows]]
           d  == Defaults(st, SessionKeys \ PoppedKeys, BUILTIN_FIELDS)
       IN  /\ page' = d.page
           /\ result' = d.result
           /\ doc_type' = d.doc_type
           /\ file_path' = RenderFile(None, d.file_path)
           /\ SetRows(d.field_rows.obj, RenderRows(d.field_rows.rows, NoEdit))
    /\ uploaded' = None
    /\ Quiet
    /\ UNCHANGED probe

Next ==
    \/ \E p \in PresetNames : SelectPreset(p)
    \/ \E u \in Uploads : UploadFile(u)
    \/ ClearUpload
    \/ ResetFields
    \/ \E i \in 1..MaxRows, w \in {"name", "desc"} :
           \E text \in TypedText[w] : EditField(i, w, text)
    \/ \E i \in 1..MaxRows : RemoveField(i)
    \/ AddField
    \/ ExtractDataPressed
    \/ ProcessAnother

Spec == Init /\ [][Next]_vars

----------------------------------------------------------------------------
(* clean_schema on its own: nested schemas built from the inside out *)

RECURSIVE Depth(_)
Depth(s) ==
    IF IsDict(s)
    THEN IF DOMAIN s.v = {} THEN 1
         ELSE 1 + (CHOOSE m \in {Depth(s.v[k]) : k \in DOMAIN s.v} :
                      \A k \in DOMAIN s.v : Depth(s.v[k]) <= m)
    ELSE IF IsList(s)
    THEN IF Len(s.v) = 0 THEN 1
         ELSE 1 + (CHOOSE m \in {Depth(s.v[i]) : i \in 1..Len(s.v)} :
                      \A i \in 1..Len(s.v) : Depth(s.v[i]) <= m)
    ELSE 0

SchemaKeys == {"properties", "items", ExtraKey}

\* the other entries of a mapping the schema is wrapped into
Siblings ==
    { <<>>, (ExtraKey :> JBool(FALSE)), ("type" :> JStr("object")) }

InitClean ==
    /\ InitSession
    /\ schema_in \in Leaves
    /\ schema_out = clean_schema(schema_in)

\* the schema becomes the value of key k of a new mapping
WrapDict(k, sib) ==
    /\ Depth(schema_in) < MaxDepth
    /\ schema_in' = JDict((k :> schema_in) @@ sib)
    /\ schema_out' = clean_schema(schema_in')
    /\ UNCHANGED session

\* the schema becomes an element of a new sequence
WrapList(pre) ==
    /\ Depth(schema_in) < MaxDepth
    /\ schema_in' = JList(pre \o <<schema_in>>)
    /\ schema_out' = clean_schema(schema_in')
    /\ UNCHANGED session

NextClean ==
    \/ \E k \in SchemaKeys, sib \in Siblings : WrapDict(k, sib)
    \/ \E pre \in {<<>>, <<JBool(FALSE)>>} : WrapList(pre)

SpecClean == InitClean /\ [][NextClean]_vars

----------------------------------------------------------------------------
(* Properties *)

IsBlank(text) == \A i \in 1..Len(text) : IsSpace(text[i])

IsGenerate(c) == c.op = "models.generate_content"

ValidationErrors == {Msg("Upload a file first."), Msg("Add at least one field.")}

\* C1: in the results page a result is stored (result is not None).
C1_ReviewHasResult == page = "results" => result # None

\* C2: "Extract Data" with no document, or with a document and only blank
\* field names, shows a validation error, calls the extraction client not at
\* all, stores no result and stays on the upload page.
C2_Step ==
    /\ \/ (file_path = None /\ uploaded = None)
       \/ \A i \in 1..Len(field_rows) : IsBlank(field_rows[i].name)
    /\ \E o \in Outcomes : Submit(o)
    => /\ error' \in ValidationErrors
       /\ calls' = <<>>
       /\ result' = None
       /\ page' = "upload"

C2_InvalidSubmitRejected == [][C2_Step]_vars

\* a rejected submit with a document present and rows that are all unnamed
C2_Witness ==
    /\ error = Msg("Add at least one field.")
    /\ file_path # None
    /\ Len(field_rows) > 0
    /\ page = "upload"

\* C3: when the checks pass and the client fails (upload, generation, or a
\* body that is not JSON), the failure is shown, the page stays the upload
\* page, no result is stored, and document, fields and preset are unchanged.
IsFailure(o) ==
    \/ o.kind \in {"upload_fails", "generate_fails"}
    \/ (o.kind = "text" /\ o.text \in Malformed)

C3_Step ==
    /\ file_path # None \/ uploaded # None
    /\ \E i \in 1..Len(field_rows) : ~IsBlank(field_rows[i].name)
    /\ calls' # <<>>
    /\ \E o \in Outcomes : IsFailure(o) /\ Submit(o)
    => /\ error' = Exception
       /\ page' = "upload"
       /\ result' = None
       /\ file_path' = file_path
       /\ field_rows' = field_rows
       /\ doc_type' = doc_type

C4_Step ==
    ProcessAnother
    => /\ page' = "upload"
       /\ file_path' = None
       /\ result' = None
       /\ doc_type' = "Form"
       /\ field_rows' = RowsOf(Catalog["Form"])
       /\ uploaded' = None

C4_ResetRestoresInitial == [][C4_Step]_vars

\* a results page reached with another preset and an edited field list
C4_Witness ==
    /\ page = "results"
    /\ doc_type = "Receipt"
    /\ CustomCount(field_rows) > 0
    /\ Len(field_rows) # Len(Catalog["Receipt"])

\* a stored result of the shape the remote service is asked for: one record
\* or a sequence of records
IsExtractionResult(v) ==
    \/ IsDict(v)
    \/ (IsList(v) /\ \A i \in 1..Len(v.v) : IsDict(v.v[i]))

\* C5: the JSON export of a stored extraction result parses back to that
\* result.
C5_JsonRoundTrip ==
    (page = "results" /\ IsExtractionResult(result))
    => LET r == json_loads(JsonExport(result)) IN r.ok /\ r.val = result

NamedOf(rows) == {i \in 1..Len(rows) : ~IsBlank(rows[i].name)}

\* C6: the schema sent to the remote service has exactly the named fields of
\* the field list as its properties, each with its description.
C6_SchemaHasEveryNamedField ==
    \A n \in 1..Len(calls) :
        IsGenerate(calls[n]) =>
            LET props == calls[n].schema.v["properties"].v IN
            /\ DOMAIN props = {Join(field_rows[i].name) : i \in NamedOf(field_rows)}
            /\ \A i \in NamedOf(field_rows) :
                   props[Join(field_rows[i].name)].v["description"]
                       = JStr(Join(field_rows[i].desc))

RECURSIVE HasExtraKey(_)
HasExtraKey(s) ==
    IF IsDict(s)
    THEN ExtraKey \in DOMAIN s.v \/ \E k \in DOMAIN s.v : HasExtraKey(s.v[k])
    ELSE IF IsList(s) THEN \E i \in 1..Len(s.v) : HasExtraKey(s.v[i])
    ELSE FALSE

\* out is in with the "additionalProperties" entries taken out and every
\* other key, element and leaf where it was
RECURSIVE Preserved(_, _)
Preserved(in, out) ==
    IF IsDict(in)
    THEN /\ IsDict(out)
         /\ DOMAIN out.v = DOMAIN in.v \ {ExtraKey}
         /\ \A k \in DOMAIN out.v : Preserved(in.v[k], out.v[k])
    ELSE IF IsList(in)
    THEN /\ IsList(out)
         /\ Len(out.v) = Len(in.v)
         /\ \A i \in 1..Len(in.v) : Preserved(in.v[i], out.v[i])
    ELSE out = in

\* C7: the output of clean_schema has no "additionalProperties" key at any
\* level, and everything else of the input is kept in place.
C7_CleanSchema == ~HasExtraKey(schema_out) /\ Preserved(schema_in, schema_out)

\* the key sits in a mapping inside a sequence inside a mapping
C7_Witness ==
    /\ IsDict(schema_in)
    /\ \E k \in DOMAIN schema_in.v \ {ExtraKey} :
          /\ IsList(schema_in.v[k])
          /\ \E i \in 1..Len(schema_in.v[k].v) :
                /\ IsDict(schema_in.v[k].v[i])
                /\ ExtraKey \in DOMAIN schema_in.v[k].v[i].v
    /\ schema_out # schema_in

\* C8: the catalog is never changed, and seeding from it gives for every
\* preset the defaults the catalog literal lists.
C8_CatalogUntouched ==
    /\ BUILTIN_FIELDS = Catalog
    /\ \A p \in PresetNames :
          on_doc_type_change(BUILTIN_FIELDS, p).rows = RowsOf(Catalog[p])

\* an edited and shortened field list seeded from the catalog
C8_Witness ==
    /\ CustomCount(field_rows) > 0
    /\ Len(field_rows) < Len(Catalog[doc_type])
    /\ field_rows[1] # RowsOf(Catalog[doc_type])[1]

\* C9: after selecting a preset or "Reset to Default Fields" the field list
\* is the catalog's default list of the preset in force; document, result
\* and page are unchanged.
C9_Step ==
    ((\E p \in PresetNames : SelectPreset(p)) \/ ResetFields)
    => /\ field_rows' = RowsOf(Catalog[doc_type'])
       /\ file_path' = file_path
       /\ result' = result
       /\ page' = page

C10_ReviewHasDocument == page = "results" => file_path # None

\* the results page is reached after the file was taken out of the uploader
C10_Witness == page = "results" /\ file_path # None /\ Truthy(result)

============================================================================
